---- MODULE Spec2Model ----
(***************************************************************************)
(* The three Topaz Video AI filters of libavfilter as one state machine:   *)
(*   tvai_cpe  camera pose estimation   (src/libavfilter/vf_tvai_cpe.c)    *)
(*   tvai_pe   parameter estimation     (same file, second half)           *)
(*   tvai_fi   frame interpolation      (src/unnamed/part_000)             *)
(* One filter instance is followed from allocation to avfilter_free.  The  *)
(* host pipeline and the inference engine are the environment: every call  *)
(* into them that can go either way is a nondeterministic choice.          *)
(***************************************************************************)
EXTENDS Integers, Sequences, FiniteSets

\* ------------------------------------------------------------------ bounds
MaxFrames == 3        \* frames upstream can deliver before its end of stream
MaxConfig == 2        \* config_props calls on the output link
MaxEofReturns == 2    \* request_frame calls that see upstream end of stream
MaxSynth == 1         \* synthesized frames counted on the interpolation output

\* -------------------------------------------------------------- constants
NULL == 0
FloatMantBits == 24   \* significand width of a C float (IEEE-754 binary32)

Filters == {"tvai_cpe", "tvai_pe", "tvai_fi"}
FrameIds == 1..MaxFrames
HandleIds == 1..MaxConfig

\* ------------------------------------------------ rationals (AVRational)
RECURSIVE Gcd(_, _)
Gcd(a, b) == IF b = 0 THEN a ELSE Gcd(b, a % b)

Abs(x) == IF x < 0 THEN -x ELSE x

\* A rational is <<num, den>>; QNorm is what av_reduce leaves: lowest terms.
QNorm(q) ==
    LET g == Gcd(Abs(q[1]), Abs(q[2]))
    IN  IF g = 0 THEN q ELSE <<q[1] \div g, q[2] \div g>>

\* The product, cross-reduced first so that no intermediate leaves 32 bits.
QMul(a, b) ==
    LET x == QNorm(<<a[1], b[2]>>)
        y == QNorm(<<b[1], a[2]>>)
    IN  <<x[1] * y[1], x[2] * y[2]>>

QInv(a) == <<a[2], a[1]>>

QEq(a, b) == QNorm(a) = QNorm(b)

\* av_mul_q / av_div_q of libavutil: the exact product, reduced.
av_mul_q(b, c) == QNorm(QMul(b, c))
av_div_q(b, c) == av_mul_q(b, <<c[2], c[1]>>)

\* ---------------------------------------------------------- C float
RECURSIVE Pow2(_)
Pow2(k) == IF k = 0 THEN 1 ELSE 2 * Pow2(k - 1)

\* The least k with n * 2^k / d >= 2^(FloatMantBits-1), for 0 < n/d < 2^23.
RECURSIVE FloatExp(_, _, _)
FloatExp(n, d, k) ==
    IF n * Pow2(k) >= Pow2(FloatMantBits - 1) * d THEN k ELSE FloatExp(n, d, k + 1)

FloatZero == <<0, 0>>

\* The conversion of a real n/d >= 0 to float: <<m, k>> is m / 2^k with
\* 2^23 <= m < 2^24, rounded to nearest, ties to even; 0 is FloatZero.
FloatOf(q) ==
    LET n  == QNorm(q)[1]
        d  == QNorm(q)[2]
        k  == FloatExp(n, d, 0)
        qo == (n * Pow2(k)) \div d
        r  == (n * Pow2(k)) % d
        m  == IF 2 * r > d \/ (2 * r = d /\ qo % 2 = 1) THEN qo + 1 ELSE qo
    IN  IF n = 0 THEN FloatZero
        ELSE IF m = Pow2(FloatMantBits) THEN <<Pow2(FloatMantBits - 1), k - 1>>
        ELSE <<m, k>>

\* The real number a float holds.
FloatQ(f) == QNorm(<<f[1], Pow2(f[2])>>)

\* ------------------------------------------------------------------ state
VARIABLES
    filter,         \* which AVFilter this instance is
    cfg,            \* options and input link: slowmo, frame_rate (fps), in_rate
    life,           \* "alloc", "inited", "configured", "streaming", "config_failed", "freed"
    nconfig,        \* config_props calls so far
    created,        \* processor handles created so far (they are 1..created)
    handle,         \* pFrameProcessor / pParamEstimator: NULL or a handle
    proc,           \* the engine's session per handle: pending, ended, destroyed
    destroyNull,    \* tvai_destroy(NULL) calls
    params,         \* fpsFactor handed to the last create (tvai_fi), <<>> if none
    outlink,        \* frame_rate and time_base of the output link
    previousFrame,  \* TVAIFIContext.previousFrame: NULL or a frame
    frames,         \* per input frame: where it is and how often it was freed
    sub,            \* per input frame: "none", "ok", "fail" (ff_tvai_process)
    ignored,        \* per input frame: ff_tvai_ignore_output calls in its filter_frame
    delivered,      \* frames handed to filter_frame so far
    out,            \* frames the filter passed to ff_filter_frame, in order
    synth,          \* frames the engine pushed on the output link (tvai_fi)
    addOutput,      \* ff_tvai_add_output calls: <<count, last anchor, last result>>
    postflight,     \* ff_tvai_postflight calls: <<count, last frame argument, last result>>
    pc,             \* "idle", or "drain" inside tvai_cpe's request_frame
    upEof,          \* upstream has signalled end of stream
    eofSeen,        \* request_frame calls that got AVERROR_EOF from upstream
    eofReturned,    \* times AVERROR_EOF was returned to downstream
    lastRemaining,  \* <<the last value tvai_remaining_frames returned>>, <<>> if none
    ret             \* the last return: [fn, val]

vars == <<filter, cfg, ignored, life, nconfig, created, handle, proc, destroyNull, params,
          outlink, previousFrame, frames, sub, delivered, out, synth, addOutput,
          postflight, pc, upEof, eofSeen, eofReturned, lastRemaining, ret>>

\* Option values a run is started with.  slowmo is a double in [0.1, 16];
\* these are exactly representable.  fps 0/1 is the default "0".
Slowmos == {<<1, 2>>, <<1, 1>>, <<2, 1>>, <<3, 1>>}
FpsOptions == {<<0, 1>>, <<30, 1>>, <<60, 1>>, <<25, 1>>}
\* The input link's frame rate; 0/1 is a link whose rate is not known.
InRates == {<<30, 1>>, <<24, 1>>, <<0, 1>>}

DefaultCfg == [slowmo |-> <<1, 1>>, frame_rate |-> <<0, 1>>, in_rate |-> <<30, 1>>]

Cfgs(f) ==
    IF f = "tvai_fi"
    THEN [slowmo : Slowmos, frame_rate : FpsOptions, in_rate : InRates]
    ELSE {DefaultCfg}

FreshProc == [pending |-> 0, ended |-> 0, destroyed |-> 0]

\* The private context is allocated zeroed (priv_size, av_mallocz).
Init ==
    /\ filter \in Filters
    /\ cfg \in Cfgs(filter)
    /\ life = "alloc"
    /\ nconfig = 0
    /\ created = 0
    /\ handle = NULL
    /\ proc = [h \in HandleIds |-> FreshProc]
    /\ destroyNull = 0
    /\ params = <<>>
    /\ outlink = [frame_rate |-> <<0, 0>>, time_base |-> "unset"]
    /\ previousFrame = NULL
    /\ frames = [f \in FrameIds |-> [loc |-> "upstream", frees |-> 0]]
    /\ sub = [f \in FrameIds |-> "none"]
    /\ ignored = [f \in FrameIds |-> 0]
    /\ delivered = 0
    /\ out = <<>>
    /\ synth = 0
    /\ addOutput = <<0, NULL, "0">>
    /\ postflight = <<0, NULL, "0">>
    /\ pc = "idle"
    /\ upEof = FALSE
    /\ eofSeen = 0
    /\ eofReturned = 0
    /\ lastRemaining = <<>>
    /\ ret = [fn |-> "none", val |-> "0"]

Ret(fn, val) == [fn |-> fn, val |-> val]

\* ------------------------------------------- collaborators (not in src/)
\* av_frame_free: the frame is released; a second release is a double free.
av_frame_free(fr, f) == [fr EXCEPT ![f] = [loc |-> "freed", frees |-> @.frees + 1]]

\* ff_filter_frame: ownership of the frame passes to the output link.
ff_filter_frame(fr, f) == [fr EXCEPT ![f].loc = "downstream"]

\* ff_tvai_process succeeded: one more output is pending in the session.
tvai_submit(p, h) == [p EXCEPT ![h].pending = @ + 1]

\* ff_tvai_ignore_output / ff_tvai_add_output take at most one ready output.
tvai_taken(p, h) == {p} \cup (IF p[h].pending > 0 THEN {[p EXCEPT ![h].pending = @ - 1]} ELSE {})

tvai_end_stream(p, h) == [p EXCEPT ![h].ended = @ + 1]

tvai_remaining_frames(p, h) == p[h].pending

tvai_destroy(p, h) == [p EXCEPT ![h].destroyed = @ + 1]

\* What ff_request_frame(ctx->inputs[0]) can return.
UpstreamResults == IF upEof THEN {"AVERROR_EOF"} ELSE {"0", "EIO", "AVERROR_EOF"}

\* ------------------------------------------------------------------- init
\* init of tvai_cpe (counter = 0) and of tvai_fi (previousFrame = NULL)
\* return 0; init of tvai_pe returns pParamEstimator == NULL, which is 1 on
\* the zeroed context and is not negative, so the host goes on.
pe_init_result(h) == IF h = NULL THEN "1" ELSE "0"

init ==
    /\ life = "alloc"
    /\ life' = "inited"
    /\ previousFrame' = IF filter = "tvai_fi" THEN NULL ELSE previousFrame
    /\ ret' = Ret("init", IF filter = "tvai_pe" THEN pe_init_result(handle) ELSE "0")
    /\ UNCHANGED <<filter, cfg, ignored, nconfig, created, handle, proc, destroyNull, params,
                   outlink, frames, sub, delivered, out, synth, addOutput,
                   postflight, pc, upEof, eofSeen, eofReturned, lastRemaining>>

\* ----------------------------------------------------------- config_props
\* The host configures the output link before any frame flows.
CanConfigure == life \in {"inited", "configured"} /\ nconfig < MaxConfig /\ pc = "idle"

config_result_always_ok(h) == "0"

\* The return of all three: EINVAL unless a handle was stored.
config_result(h) == IF h = NULL THEN "EINVAL" ELSE "0"

\* tvai_create / ff_tvai_verifyAndCreate: a new session, or NULL.
Created(made) == IF made THEN created + 1 ELSE NULL

ConfigDone(h, r) ==
    /\ nconfig' = nconfig + 1
    /\ handle' = h
    /\ created' = IF h # NULL /\ h # handle THEN created + 1 ELSE created
    /\ ret' = Ret("config_props", r)
    /\ life' = IF r = "0" THEN "configured" ELSE "config_failed"
    /\ UNCHANGED <<filter, cfg, ignored, proc, destroyNull, previousFrame, frames, sub,
                   delivered, out, synth, addOutput, postflight, pc, upEof,
                   eofSeen, eofReturned, lastRemaining>>

cpe_config_props ==
    /\ filter = "tvai_cpe"
    /\ CanConfigure
    /\ \E verified \in BOOLEAN, made \in BOOLEAN :
         IF ~verified
         THEN ConfigDone(handle, "EINVAL")
         ELSE ConfigDone(Created(made), config_result(Created(made)))
    /\ UNCHANGED <<params, outlink>>

pe_config_props ==
    /\ filter = "tvai_pe"
    /\ CanConfigure
    /\ \E made \in BOOLEAN : ConfigDone(Created(made), config_result(Created(made)))
    /\ UNCHANGED <<params, outlink>>

fi_fpsFactor_fps_no_slowmo(slowmo, frame_rate, in_rate) ==
    FloatOf(QInv(av_div_q(frame_rate, in_rate)))

\* fpsFactor with an fps option: 1/(slowmo * av_q2d(frame_rate / in_rate)),
\* a double expression stored in a float.  With in_rate 0/1 the quotient is
\* x/0, av_q2d gives +inf and the reciprocal is 0.  The double steps are taken as
\* exact: for the rationals used here the exact value is never within a
\* double's error of a float rounding boundary, so the float is the same.
fi_fpsFactor_fps(slowmo, frame_rate, in_rate) ==
    LET frFactor == av_div_q(frame_rate, in_rate)
    IN  FloatOf(QInv(QMul(slowmo, frFactor)))

fi_fpsFactor_default_slowmo(slowmo) == FloatOf(slowmo)

\* fpsFactor without one: 1/slowmo.
fi_fpsFactor_default(slowmo) == FloatOf(QInv(slowmo))

fi_fpsFactor(c) ==
    IF c.frame_rate[1] > 0
    THEN fi_fpsFactor_fps(c.slowmo, c.frame_rate, c.in_rate)
    ELSE fi_fpsFactor_default(c.slowmo)

\* outlink->frame_rate when config_props returns.
fi_out_frame_rate(frame_rate, in_rate) == IF frame_rate[1] > 0 THEN frame_rate ELSE in_rate

fi_config_props ==
    /\ filter = "tvai_fi"
    /\ CanConfigure
    /\ params' = [fpsFactor |-> fi_fpsFactor(cfg), slowmo |-> cfg.slowmo]
    /\ outlink' = [frame_rate |-> fi_out_frame_rate(cfg.frame_rate, cfg.in_rate),
                   time_base |-> "inlink"]
    /\ \E made \in BOOLEAN : ConfigDone(Created(made), config_result(Created(made)))

\* ----------------------------------------------------------- filter_frame
\* Frames arrive in order, only on a configured link, and none after the
\* upstream end of stream.
CanStream == life \in {"configured", "streaming"} /\ pc = "idle"
CanFilter == CanStream /\ ~upEof /\ delivered < MaxFrames

\* What each filter_frame does with a frame ff_tvai_process refused:
\* av_frame_free(&in); return AVERROR(ENOSYS);
cpe_on_failure(fr, f) == av_frame_free(fr, f)
pe_on_failure(fr, f) == av_frame_free(fr, f)
fi_on_failure_leak(fr, f) == fr
fi_on_failure_drop_previous(fr, f) ==
    IF previousFrame # NULL THEN av_frame_free(av_frame_free(fr, f), previousFrame)
    ELSE av_frame_free(fr, f)
fi_on_failure(fr, f) == av_frame_free(fr, f)

RefuseFrame(f, fr) ==
    /\ frames' = fr
    /\ sub' = [sub EXCEPT ![f] = "fail"]
    /\ ret' = Ret("filter_frame", "ENOSYS")
    /\ UNCHANGED <<proc, previousFrame, out, synth, addOutput, ignored>>

\* ff_tvai_ignore_output calls between a successful ff_tvai_process and the
\* forwarding of the frame: one in tvai_cpe, none in tvai_pe.
cpe_ignore_calls == 1
pe_ignore_calls == 0

cpe_forward_twice(o, f) == Append(Append(o, f), f)

\* return ff_filter_frame(outlink, in): the frame goes out, once.
cpe_forward(o, f) == Append(o, f)

cpe_filter_frame ==
    /\ filter = "tvai_cpe"
    /\ CanFilter
    /\ LET in == delivered + 1
       IN  /\ delivered' = in
           /\ \/ RefuseFrame(in, cpe_on_failure(frames, in))
              \/ /\ sub' = [sub EXCEPT ![in] = "ok"]
                 /\ proc' \in tvai_taken(tvai_submit(proc, handle), handle)
                 /\ ignored' = [ignored EXCEPT ![in] = @ + cpe_ignore_calls]
                 /\ out' = cpe_forward(out, in)
                 /\ frames' = ff_filter_frame(frames, in)
                 /\ \E r \in {"0", "EIO"} : ret' = Ret("filter_frame", r)
                 /\ UNCHANGED <<previousFrame, synth, addOutput>>
    /\ life' = "streaming"
    /\ UNCHANGED <<filter, cfg, nconfig, created, handle, destroyNull, params, outlink,
                   postflight, pc, upEof, eofSeen, eofReturned, lastRemaining>>

pe_forward_twice(o, f) == Append(Append(o, f), f)

\* return ff_filter_frame(outlink, in): the frame goes out, once.
pe_forward(o, f) == Append(o, f)

pe_filter_frame ==
    /\ filter = "tvai_pe"
    /\ CanFilter
    /\ LET in == delivered + 1
       IN  /\ delivered' = in
           /\ \/ RefuseFrame(in, pe_on_failure(frames, in))
              \/ /\ sub' = [sub EXCEPT ![in] = "ok"]
                 /\ proc' = tvai_submit(proc, handle)
                 /\ ignored' = [ignored EXCEPT ![in] = @ + pe_ignore_calls]
                 /\ out' = pe_forward(out, in)
                 /\ frames' = ff_filter_frame(frames, in)
                 /\ \E r \in {"0", "EIO"} : ret' = Ret("filter_frame", r)
                 /\ UNCHANGED <<previousFrame, synth, addOutput>>
    /\ life' = "streaming"
    /\ UNCHANGED <<filter, cfg, nconfig, created, handle, destroyNull, params, outlink,
                   postflight, pc, upEof, eofSeen, eofReturned, lastRemaining>>

fi_release_previous_never(fr, prev) == fr

\* if(tvai->previousFrame) av_frame_free(&tvai->previousFrame);
fi_release_previous(fr, prev) == IF prev # NULL THEN av_frame_free(fr, prev) ELSE fr

\* tvai->previousFrame = in;
fi_store_previous(prev, in) == in

fi_anchor_previous(prev, in) == prev

\* ff_tvai_add_output(tvai->pFrameProcessor, outlink, in, 0): the anchor.
fi_anchor(prev, in) == in

fi_filter_result_ok(r) == "0"

\* ret = ff_tvai_add_output(...); return ret;
fi_filter_result(r) == r

\* The engine pushes none or one frame of its own on the output link.
Pushed(n) == {n} \cup (IF n < MaxSynth THEN {n + 1} ELSE {})

fi_filter_frame ==
    /\ filter = "tvai_fi"
    /\ CanFilter
    /\ LET in == delivered + 1
       IN  /\ delivered' = in
           /\ \/ RefuseFrame(in, fi_on_failure(frames, in))
              \/ /\ sub' = [sub EXCEPT ![in] = "ok"]
                 /\ frames' = [fi_release_previous(frames, previousFrame)
                                 EXCEPT ![in].loc = "stage"]
                 /\ previousFrame' = fi_store_previous(previousFrame, in)
                 /\ proc' \in tvai_taken(tvai_submit(proc, handle), handle)
                 /\ synth' \in Pushed(synth)
                 /\ \E r \in {"0", "EIO"} :
                      /\ addOutput' = <<addOutput[1] + 1, fi_anchor(previousFrame, in), r>>
                      /\ ret' = Ret("filter_frame", fi_filter_result(r))
                 /\ UNCHANGED <<out, ignored>>
    /\ life' = "streaming"
    /\ UNCHANGED <<filter, cfg, nconfig, created, handle, destroyNull, params, outlink,
                   postflight, pc, upEof, eofSeen, eofReturned, lastRemaining>>

\* ---------------------------------------------------------- request_frame
\* Which callbacks each output pad registers.
tvai_cpe_outputs == [config_props |-> TRUE, request_frame |-> TRUE]
tvai_pe_outputs == [config_props |-> TRUE, request_frame |-> FALSE]
tvai_fi_outputs == [config_props |-> TRUE, request_frame |-> TRUE]

CanRequest == CanStream /\ eofSeen < MaxEofReturns

\* The part every request shares: the upstream answer r is taken.
Asked(r) ==
    /\ upEof' = (upEof \/ r = "AVERROR_EOF")
    /\ eofSeen' = IF r = "AVERROR_EOF" THEN eofSeen + 1 ELSE eofSeen
    /\ life' = "streaming"

Returned(r) ==
    /\ ret' = Ret("request_frame", r)
    /\ eofReturned' = IF r = "AVERROR_EOF" THEN eofReturned + 1 ELSE eofReturned

\* tvai_cpe: on AVERROR_EOF, tvai_end_stream and enter the wait loop.
cpe_request_frame ==
    /\ filter = "tvai_cpe"
    /\ tvai_cpe_outputs.request_frame
    /\ CanRequest
    /\ \E r \in UpstreamResults :
         /\ Asked(r)
         /\ IF r = "AVERROR_EOF"
            THEN /\ proc' = tvai_end_stream(proc, handle)
                 /\ pc' = "drain"
                 /\ UNCHANGED <<ret, eofReturned>>
            ELSE /\ Returned(r)
                 /\ UNCHANGED <<proc, pc>>
    /\ UNCHANGED <<filter, cfg, ignored, nconfig, created, handle, destroyNull, params, outlink,
                   previousFrame, frames, sub, delivered, out, synth, addOutput,
                   postflight, lastRemaining>>

cpe_drain_never(rem) == FALSE
cpe_drain_nonnegative(rem) == rem >= 0

\* while(tvai_remaining_frames(...) > 0)
cpe_drain_more(rem) == rem > 0

\* One evaluation of the loop condition: either one more round
\* (ff_tvai_ignore_output, tvai_wait(20)) or the return of AVERROR_EOF.
cpe_drain ==
    /\ filter = "tvai_cpe"
    /\ pc = "drain"
    /\ LET rem == tvai_remaining_frames(proc, handle)
       IN  /\ lastRemaining' = <<rem>>
           /\ \/ /\ cpe_drain_more(rem)
                 /\ proc' \in tvai_taken(proc, handle)
                 /\ UNCHANGED <<pc, ret, eofReturned>>
              \/ /\ ~cpe_drain_more(rem)
                 /\ pc' = "idle"
                 /\ Returned("AVERROR_EOF")
                 /\ UNCHANGED proc
    /\ UNCHANGED <<filter, cfg, ignored, life, nconfig, created, handle, destroyNull, params,
                   outlink, previousFrame, frames, sub, delivered, out, synth,
                   addOutput, postflight, upEof, eofSeen>>

\* request_frame of tvai_pe as written: tvai_end_stream on AVERROR_EOF, no loop.
pe_request_frame(p, h, r) == IF r = "AVERROR_EOF" THEN tvai_end_stream(p, h) ELSE p

\* A request on tvai_pe's output.  The pad registers no request_frame, so the
\* host asks the input link itself and passes its answer on.
pe_request ==
    /\ filter = "tvai_pe"
    /\ CanRequest
    /\ \E r \in UpstreamResults :
         /\ Asked(r)
         /\ Returned(r)
         /\ proc' = IF tvai_pe_outputs.request_frame
                    THEN pe_request_frame(proc, handle, r)
                    ELSE proc
    /\ UNCHANGED <<filter, cfg, ignored, nconfig, created, handle, destroyNull, params, outlink,
                   previousFrame, frames, sub, delivered, out, synth, addOutput,
                   postflight, pc, lastRemaining>>

\* ff_tvai_postflight: ends the stream and completes the last window itself;
\* when it reports success nothing is pending any more.
tvai_postflight(p, h, pr) ==
    [p EXCEPT ![h] = [pending |-> IF pr = "0" THEN 0 ELSE @.pending,
                      ended |-> @.ended + 1,
                      destroyed |-> @.destroyed]]

fi_request_result_upstream(r, pr) == r

\* if(r) return r;  ...  return ret;
fi_request_result(r, pr) == IF pr # "0" THEN pr ELSE r

fi_request_frame ==
    /\ filter = "tvai_fi"
    /\ tvai_fi_outputs.request_frame
    /\ CanRequest
    /\ \E r \in UpstreamResults :
         /\ Asked(r)
         /\ IF r = "AVERROR_EOF"
            THEN \E pr \in {"0", "EIO"} :
                   /\ postflight' = <<postflight[1] + 1, previousFrame, pr>>
                   /\ proc' = tvai_postflight(proc, handle, pr)
                   /\ synth' \in Pushed(synth)
                   /\ Returned(fi_request_result(r, pr))
            ELSE /\ Returned(r)
                 /\ UNCHANGED <<postflight, proc, synth>>
    /\ UNCHANGED <<filter, cfg, ignored, nconfig, created, handle, destroyNull, params, outlink,
                   previousFrame, frames, sub, delivered, out, addOutput, pc,
                   lastRemaining>>

\* ----------------------------------------------------------------- uninit
\* Whether uninit calls tvai_destroy on the stored handle: tvai_cpe and
\* tvai_fi have the call commented out, tvai_pe makes it unconditionally.
cpe_uninit_destroys_on == TRUE
cpe_uninit_destroys == FALSE
pe_uninit_destroys == TRUE
fi_uninit_destroys == FALSE

uninit_destroys ==
    CASE filter = "tvai_cpe" -> cpe_uninit_destroys
      [] filter = "tvai_pe" -> pe_uninit_destroys
      [] filter = "tvai_fi" -> fi_uninit_destroys

fi_uninit_frames_release(fr, prev) == IF prev # NULL THEN av_frame_free(fr, prev) ELSE fr

\* uninit of tvai_fi has an empty body: previousFrame is neither released
\* nor cleared.
fi_uninit_frames(fr, prev) == fr

\* avfilter_free runs uninit once, whatever the filter got to.
uninit ==
    /\ life # "freed"
    /\ pc = "idle"
    /\ life' = "freed"
    /\ IF uninit_destroys
       THEN IF handle = NULL
            THEN destroyNull' = destroyNull + 1 /\ UNCHANGED proc
            ELSE proc' = tvai_destroy(proc, handle) /\ UNCHANGED destroyNull
       ELSE UNCHANGED <<proc, destroyNull>>
    /\ frames' = IF filter = "tvai_fi" THEN fi_uninit_frames(frames, previousFrame) ELSE frames
    /\ ret' = Ret("uninit", "0")
    /\ UNCHANGED <<filter, cfg, ignored, nconfig, created, handle, params, outlink,
                   previousFrame, sub, delivered, out, synth, addOutput,
                   postflight, pc, upEof, eofSeen, eofReturned, lastRemaining>>

\* ------------------------------------------------------------------- spec
Next ==
    \/ init
    \/ cpe_config_props
    \/ pe_config_props
    \/ fi_config_props
    \/ cpe_filter_frame
    \/ pe_filter_frame
    \/ fi_filter_frame
    \/ cpe_request_frame
    \/ cpe_drain
    \/ pe_request
    \/ fi_request_frame
    \/ uninit

Spec == Init /\ [][Next]_vars

\* A tvai_cpe instance alone, with an engine that keeps working: the wait
\* loop keeps being evaluated, and a session with pending output gives one
\* up in the end.
InitCpe == Init /\ filter = "tvai_cpe"

cpe_drain_progress == cpe_drain /\ proc'[handle].pending < proc[handle].pending

NextCpe ==
    \/ init
    \/ cpe_config_props
    \/ cpe_filter_frame
    \/ cpe_request_frame
    \/ cpe_drain
    \/ uninit

SpecFairDrain ==
    InitCpe /\ [][NextCpe]_vars /\ WF_vars(cpe_drain) /\ WF_vars(cpe_drain_progress)

\* ----------------------------------------------------------------- claims
Upto(n) == [i \in 1..n |-> i]
AllOk == \A f \in 1..delivered : sub[f] = "ok"
OkFrames == {f \in 1..delivered : sub[f] = "ok"}
EofToDownstream == ret = Ret("request_frame", "AVERROR_EOF")

\* C1: tvai_cpe: when every submission so far succeeded, the frames passed
\* downstream are exactly the frames delivered, each once, in arrival order
\* and still unreleased; and when AVERROR_EOF has been returned, upstream had
\* ended, so all of them went out before it.
C1_PassThroughInOrder ==
    filter = "tvai_cpe" =>
        /\ AllOk =>
              /\ out = Upto(delivered)
              /\ \A f \in 1..delivered : frames[f] = [loc |-> "downstream", frees |-> 0]
        /\ eofReturned > 0 => upEof

C1_Witness ==
    /\ filter = "tvai_cpe"
    /\ EofToDownstream
    /\ delivered = MaxFrames
    /\ AllOk
    /\ out = Upto(MaxFrames)

\* C2: tvai_cpe: whenever request_frame has returned AVERROR_EOF, tvai_end_stream
\* was called on the handle, the last tvai_remaining_frames read was <= 0, and
\* the session has nothing pending.
C2_EofOnlyWhenDrained ==
    filter = "tvai_cpe" /\ EofToDownstream =>
        /\ handle # NULL
        /\ proc[handle].ended >= 1
        /\ lastRemaining # <<>>
        /\ lastRemaining[1] <= 0
        /\ proc[handle].pending = 0

C2_Witness ==
    /\ filter = "tvai_cpe"
    /\ EofToDownstream
    /\ OkFrames # {}
    /\ proc[handle].ended = 1
    /\ lastRemaining = <<0>>

\* C3: tvai_pe: end of stream reaches downstream only after tvai_end_stream was
\* called on the handle and tvai_remaining_frames was polled down to zero, as
\* in tvai_cpe.
C3_PeDrainsBeforeEof ==
    filter = "tvai_pe" /\ EofToDownstream =>
        /\ handle # NULL
        /\ proc[handle].ended >= 1
        /\ lastRemaining # <<>>
        /\ lastRemaining[1] <= 0
        /\ proc[handle].pending = 0

\* Every refused frame is released once, and is neither downstream nor kept.
RefusedFramesGone ==
    \A f \in FrameIds :
        sub[f] = "fail" =>
            /\ frames[f] = [loc |-> "freed", frees |-> 1]
            /\ \A i \in 1..Len(out) : out[i] # f
            /\ previousFrame # f

filter_frame == cpe_filter_frame \/ pe_filter_frame \/ fi_filter_frame

\* After a refusal the next frame of the stream can still be delivered.
StillStreaming ==
    (ret = Ret("filter_frame", "ENOSYS") /\ delivered < MaxFrames /\ ~upEof /\ pc = "idle")
        => ENABLED filter_frame

\* The call that refuses a frame returns AVERROR(ENOSYS), releases that
\* frame and leaves the rest of the filter as it was.
RefusalStep ==
    (delivered' = delivered + 1 /\ sub'[delivered'] = "fail") =>
        /\ ret' = Ret("filter_frame", "ENOSYS")
        /\ frames' = [frames EXCEPT ![delivered'] = [loc |-> "freed", frees |-> 1]]
        /\ life' = "streaming"
        /\ UNCHANGED <<handle, proc, previousFrame, out, synth, addOutput,
                       postflight, pc, upEof, eofSeen, eofReturned, created>>

\* C4: in all three filters, a frame ff_tvai_process refused is released
\* exactly once, is never passed downstream and never kept as previousFrame;
\* the call returns AVERROR(ENOSYS) and changes nothing else the filter
\* holds, so the next frame is taken as if the refusal had not happened.
C4_RefusedFrameReleasedOnce ==
    []RefusedFramesGone /\ []StillStreaming /\ [][RefusalStep]_vars

C4_Witness ==
    /\ filter = "tvai_fi"
    /\ delivered = MaxFrames
    /\ sub[1] = "ok"
    /\ sub[2] = "fail"
    /\ sub[MaxFrames] = "ok"
    /\ previousFrame = MaxFrames
    /\ frames[2] = [loc |-> "freed", frees |-> 1]

\* The last frame whose submission succeeded.
LastOk == CHOOSE f \in OkFrames : \A g \in OkFrames : g <= f

\* C5: tvai_fi: previousFrame is NULL until a submission succeeds and from
\* then on is the last frame whose submission succeeded; that frame is held
\* and unreleased, it is the only frame the filter holds, and every earlier
\* accepted frame has been released exactly once.
C5_OnePreviousFrame ==
    filter = "tvai_fi" =>
        /\ (OkFrames = {}) = (previousFrame = NULL)
        /\ OkFrames # {} =>
              /\ previousFrame = LastOk
              /\ frames[previousFrame] = [loc |-> "stage", frees |-> 0]
              /\ \A g \in OkFrames \ {previousFrame} :
                    frames[g] = [loc |-> "freed", frees |-> 1]
        /\ Cardinality({f \in FrameIds : frames[f].loc = "stage"}) <= 1

C5_Witness ==
    /\ filter = "tvai_fi"
    /\ delivered = MaxFrames
    /\ AllOk
    /\ previousFrame = MaxFrames
    /\ \A f \in 1..(MaxFrames - 1) : frames[f] = [loc |-> "freed", frees |-> 1]

C7_DestroyOnlyAfterDrain ==
    /\ destroyNull = 0
    /\ \A h \in HandleIds :
          proc[h].destroyed > 0 => (h <= created /\ proc[h].ended >= 1 /\ proc[h].pending = 0)

\* C8: however often request_frame is called, tvai_end_stream (tvai_cpe) or
\* ff_tvai_postflight (tvai_fi) runs once per stream and AVERROR_EOF is
\* returned downstream once.
C8_DrainHappensOnce ==
    /\ filter = "tvai_cpe" => \A h \in HandleIds : proc[h].ended <= 1
    /\ filter = "tvai_fi" => postflight[1] <= 1
    /\ filter \in {"tvai_cpe", "tvai_fi"} => eofReturned <= 1

\* The float f = m / 2^k is the one nearest to the real q: normalised, and
\* within half a unit in its last place of q.
NearestFloat(f, q) ==
    LET n == QNorm(q)[1]
        d == QNorm(q)[2]
    IN  /\ Pow2(FloatMantBits - 1) <= f[1]
        /\ f[1] < Pow2(FloatMantBits)
        /\ 2 * Abs(f[1] * d - n * Pow2(f[2])) <= d

ConfiguredWithFps ==
    filter = "tvai_fi" /\ params # <<>> /\ cfg.in_rate[1] > 0 /\ cfg.frame_rate[1] > 0
ConfiguredWithoutFps ==
    filter = "tvai_fi" /\ params # <<>> /\ cfg.in_rate[1] > 0 /\ ~(cfg.frame_rate[1] > 0)

PositiveFloat(f) == f[1] > 0

\* C11: tvai_fi config_props rejects a slow-motion factor or an input frame
\* rate that is zero or negative: it then returns an error and creates no
\* handle, so no handle is ever created with an fps-factor that is not
\* positive.
C11_BadRetimingRejected ==
    (filter = "tvai_fi" /\ params # <<>>) =>
        /\ (cfg.slowmo[1] <= 0 \/ cfg.in_rate[1] <= 0) =>
              (ret.fn = "config_props" => ret.val = "EINVAL") /\ created = 0
        /\ created > 0 => PositiveFloat(params.fpsFactor)

\* A config_props call returns 0 exactly when it created a handle and stored
\* it, and AVERROR(EINVAL) otherwise.
ConfigStep ==
    nconfig' = nconfig + 1 =>
        /\ ret'.fn = "config_props"
        /\ ret'.val \in {"0", "EINVAL"}
        /\ (ret'.val = "0") = (created' = created + 1 /\ handle' = created' /\ handle' # NULL)
        /\ created' \in {created, created + 1}

\* Frames and requests are only handled with a handle in place.
StreamStep ==
    (delivered' # delivered \/ eofSeen' # eofSeen \/ pc' = "drain"
        \/ ret'.fn \in {"filter_frame", "request_frame"}) => handle # NULL /\ handle' # NULL

\* C12: in all three filters config_props returns 0 if and only if a non-null
\* handle was created and stored, and AVERROR(EINVAL) whenever verification
\* fails or create returns NULL; as the host delivers nothing to a filter
\* whose configuration failed, filter_frame and request_frame never run with
\* a NULL handle.
C12_ConfigOkIffHandle ==
    /\ [](life \in {"configured", "streaming"} => handle # NULL)
    /\ [][ConfigStep]_vars
    /\ [][StreamStep]_vars

C12_Witness ==
    /\ filter = "tvai_cpe"
    /\ ret = Ret("config_props", "EINVAL")
    /\ nconfig = MaxConfig
    /\ created = 1
    /\ life = "config_failed"

\* One evaluation of the wait loop: with output remaining the call stays in
\* the loop, whatever happened before, and at most one output is taken; with
\* none remaining it returns AVERROR_EOF.
DrainStep ==
    pc = "drain" =>
        IF proc[handle].pending > 0
        THEN /\ pc' = "drain"
             /\ ret' = ret
             /\ eofReturned' = eofReturned
             /\ proc'[handle].pending \in {proc[handle].pending - 1, proc[handle].pending}
        ELSE /\ pc' = "idle"
             /\ ret' = Ret("request_frame", "AVERROR_EOF")
             /\ proc' = proc

\* C13: tvai_cpe, with an engine whose remaining count reaches 0 after
\* tvai_end_stream: the request_frame call that saw upstream end of stream
\* ends and returns AVERROR_EOF; while output remains every round of the loop
\* goes back to the loop condition (there is no round limit and no timeout).
C13_DrainTerminates ==
    /\ (pc = "drain") ~> (pc = "idle" /\ EofToDownstream)
    /\ [][DrainStep]_vars

C13_Witness ==
    /\ filter = "tvai_cpe"
    /\ pc = "drain"
    /\ lastRemaining = <<1>>
    /\ proc[handle].pending = 0
    /\ proc[handle].ended = 1

\* C14: in tvai_cpe and tvai_pe every successful submission is followed by
\* exactly one ff_tvai_ignore_output call before the frame is forwarded, and
\* no such call is made for a frame whose submission failed.
C14_OneIgnorePerSubmission ==
    filter \in {"tvai_cpe", "tvai_pe"} =>
        \A f \in FrameIds :
            /\ sub[f] = "ok" => ignored[f] = 1
            /\ sub[f] # "ok" => ignored[f] = 0

\* A filter_frame call of tvai_fi whose submission succeeded: the frame held
\* before is released, the new frame is stored unreleased, ff_tvai_add_output
\* runs once, after that, with the new frame as anchor, and its result is
\* what the call returns.
AcceptStep ==
    (filter = "tvai_fi" /\ delivered' = delivered + 1 /\ sub'[delivered'] = "ok") =>
        /\ previousFrame # NULL => frames'[previousFrame] = [loc |-> "freed", frees |-> 1]
        /\ previousFrame' = delivered'
        /\ frames'[delivered'] = [loc |-> "stage", frees |-> 0]
        /\ addOutput'[1] = addOutput[1] + 1
        /\ addOutput'[2] = delivered'
        /\ ret' = Ret("filter_frame", addOutput'[3])

\* C15: tvai_fi filter_frame, on a successful submission: the prior
\* previousFrame is released, then the new frame is stored, then
\* ff_tvai_add_output is called, once per accepted frame and with that frame
\* as anchor; filter_frame returns that call's result, and whatever it is the
\* stored frame stays stored and unreleased.
C15_AddOutputOncePerFrame ==
    /\ [](filter = "tvai_fi" => addOutput[1] = Cardinality(OkFrames))
    /\ [](filter = "tvai_fi" /\ OkFrames # {} =>
            /\ addOutput[2] = previousFrame
            /\ frames[previousFrame] = [loc |-> "stage", frees |-> 0])
    /\ [][AcceptStep]_vars

C15_Witness ==
    /\ filter = "tvai_fi"
    /\ ret = Ret("filter_frame", "EIO")
    /\ sub[delivered] = "ok"
    /\ delivered = 2
    /\ sub[1] = "ok"
    /\ addOutput = <<2, 2, "EIO">>
    /\ previousFrame = 2
    /\ frames[1].frees = 1

\* The frame tvai_fi should hand to ff_tvai_postflight.
LastAccepted == IF OkFrames = {} THEN NULL ELSE LastOk

\* A request_frame call of tvai_fi: when upstream answers AVERROR_EOF there
\* is one ff_tvai_postflight call, on previousFrame, and the call returns the
\* postflight error if there is one and AVERROR_EOF otherwise; with any other
\* answer there is no postflight call.
PostflightStep ==
    filter = "tvai_fi" =>
        IF eofSeen' = eofSeen + 1
        THEN /\ postflight'[1] = postflight[1] + 1
             /\ postflight'[2] = LastAccepted
             /\ ret' = Ret("request_frame",
                           IF postflight'[3] # "0" THEN postflight'[3] ELSE "AVERROR_EOF")
             /\ (postflight'[3] # "0") => eofReturned' = eofReturned
        ELSE postflight' = postflight

\* C16: tvai_fi: when upstream signals end of stream, request_frame makes a
\* single ff_tvai_postflight call whose frame argument is the last frame
\* accepted (NULL if none was); it returns postflight's error if postflight
\* fails and AVERROR_EOF if it succeeds; postflight is never called while
\* upstream has not signalled end of stream.
C16_PostflightOnEof ==
    /\ [](filter = "tvai_fi" => postflight[1] = eofSeen)
    /\ [][PostflightStep]_vars

C16_Witness ==
    /\ filter = "tvai_fi"
    /\ ret = Ret("request_frame", "EIO")
    /\ postflight = <<1, 2, "EIO">>
    /\ eofSeen = 1
    /\ eofReturned = 0
    /\ previousFrame = 2

\* Handles created so far that have not been destroyed.
LiveHandles == {h \in 1..created : proc[h].destroyed = 0}

\* C17: a stage instance has at most one live processor handle at any time:
\* over any sequence of config_props calls a previously created handle is
\* destroyed or reused before the handle field is overwritten, so every live
\* handle is the one the handle field holds.
C17_AtMostOneLiveHandle ==
    /\ Cardinality(LiveHandles) <= 1
    /\ \A h \in LiveHandles : h = handle

\* How many times frame f was handed to the output link.
OutCount(f) == Cardinality({i \in 1..Len(out) : out[i] = f})

Released(f) ==
    /\ frames[f] = [loc |-> "freed", frees |-> 1]
    /\ OutCount(f) = 0
    /\ previousFrame # f

HandedDownstream(f) ==
    /\ frames[f] = [loc |-> "downstream", frees |-> 0]
    /\ OutCount(f) = 1
    /\ previousFrame # f
    /\ filter # "tvai_fi"

HeldAsPrevious(f) ==
    /\ frames[f] = [loc |-> "stage", frees |-> 0]
    /\ OutCount(f) = 0
    /\ previousFrame = f
    /\ filter = "tvai_fi"

NotYetReceived(f) ==
    /\ frames[f] = [loc |-> "upstream", frees |-> 0]
    /\ OutCount(f) = 0
    /\ previousFrame # f

ExclusiveOwnership ==
    \A f \in FrameIds :
        IF f <= delivered
        THEN Released(f) \/ HandedDownstream(f) \/ HeldAsPrevious(f)
        ELSE NotYetReceived(f)

\* A frame that was released or handed downstream is not touched again.
GoneStaysGone ==
    \A f \in FrameIds :
        frames[f].loc \in {"freed", "downstream"} =>
            /\ frames'[f] = frames[f]
            /\ OutCount(f)' = OutCount(f)
            /\ previousFrame' # f

\* C18: in all three filters every frame received by filter_frame is in
\* exactly one of: released (once), handed downstream (once), held as
\* previousFrame; no frame is released twice or forwarded after release, a
\* frame handed downstream is not stored or released afterwards, and tvai_fi
\* keeps its input frame and never hands it downstream.
C18_ExclusiveOwnership ==
    []ExclusiveOwnership /\ [][GoneStaysGone]_vars

C18_Witness ==
    /\ filter = "tvai_cpe"
    /\ life = "freed"
    /\ delivered = MaxFrames
    /\ sub[1] = "ok"
    /\ sub[2] = "fail"
    /\ out = <<1, MaxFrames>>
    /\ Released(2)
    /\ HandedDownstream(1)

\* A filter_frame call of tvai_fi whose ff_tvai_process fails leaves
\* previousFrame and the frame it names as they were, makes no
\* ff_tvai_add_output call and puts nothing on the output link.
FailedSubmissionStep ==
    (filter = "tvai_fi" /\ delivered' = delivered + 1 /\ sub'[delivered'] = "fail") =>
        /\ previousFrame' = previousFrame
        /\ previousFrame # NULL =>
              /\ previousFrame = LastOk
              /\ frames'[previousFrame] = [loc |-> "stage", frees |-> 0]
        /\ \A f \in FrameIds \ {delivered'} : frames'[f] = frames[f]
        /\ addOutput' = addOutput
        /\ out' = out
        /\ synth' = synth

\* C19: tvai_fi: when ff_tvai_process fails in filter_frame, previousFrame is
\* unchanged (it still holds the last frame submitted successfully, which is
\* not released), ff_tvai_add_output is not called and nothing is pushed
\* downstream for that call.
C19_FailedSubmissionKeepsPrevious ==
    [][FailedSubmissionStep]_vars

C19_Witness ==
    /\ filter = "tvai_fi"
    /\ delivered = 2
    /\ sub[1] = "ok"
    /\ sub[2] = "fail"
    /\ ret = Ret("filter_frame", "ENOSYS")
    /\ previousFrame = 1
    /\ frames[1] = [loc |-> "stage", frees |-> 0]
    /\ addOutput[1] = 1

\* In tvai_fi the frame previousFrame names is released, or the field
\* changed, only by a successful submission that replaces it.
ReleaseOnlyOnReplace ==
    (/\ filter = "tvai_fi"
     /\ previousFrame # NULL
     /\ \/ previousFrame' # previousFrame
        \/ frames'[previousFrame] # frames[previousFrame]) =>
        /\ delivered' = delivered + 1
        /\ sub'[delivered'] = "ok"
        /\ previousFrame' = delivered'
        /\ frames'[previousFrame] = [loc |-> "freed", frees |-> 1]

\* After teardown of a tvai_fi that accepted at least one frame, the last
\* accepted frame is still held and every other accepted one was released.
HeldAfterTeardown ==
    (filter = "tvai_fi" /\ life = "freed" /\ OkFrames # {}) =>
        /\ previousFrame = LastOk
        /\ frames[LastOk] = [loc |-> "stage", frees |-> 0]
        /\ {f \in FrameIds : frames[f].loc = "stage"} = {LastOk}
        /\ \A g \in OkFrames \ {LastOk} : frames[g] = [loc |-> "freed", frees |-> 1]

\* C20: tvai_fi: previousFrame is released only when a later successful
\* submission replaces it; neither the postflight path of request_frame nor
\* uninit releases or clears it, so after a run with at least one successful
\* submission exactly one input frame, the last accepted, is still held when
\* uninit has run, and every other accepted frame was released exactly once.
C20_PreviousFrameOutlivesTeardown ==
    []HeldAfterTeardown /\ [][ReleaseOnlyOnReplace]_vars

C20_Witness ==
    /\ filter = "tvai_fi"
    /\ life = "freed"
    /\ postflight[1] = 1
    /\ postflight[2] = MaxFrames
    /\ AllOk
    /\ delivered = MaxFrames
    /\ previousFrame = MaxFrames
    /\ frames[MaxFrames] = [loc |-> "stage", frees |-> 0]
    /\ frames[1] = [loc |-> "freed", frees |-> 1]
====
